---- MODULE Spec2Model ----
(***************************************************************************)
(* Course catalogue and application tracking: the entity store of the      *)
(* migration (tables, constraints, row-level-security policies, the        *)
(* provisioning trigger) and the page handlers that issue requests to it.  *)
(*                                                                         *)
(* Row-level security is modelled as PostgreSQL evaluates it: permissive   *)
(* policies of a command are OR'd; a policy FOR ALL applies to every       *)
(* command; a policy without WITH CHECK uses its USING expression as the   *)
(* check of new rows; an INSERT whose new row fails the check is an error; *)
(* an UPDATE or DELETE silently skips the rows its USING expressions (and  *)
(* the SELECT policies, since the request filters on a column) reject.     *)
(***************************************************************************)
EXTENDS Integers, FiniteSets, Sequences, TLC

\* ---------------------------------------------------------------- bounds
MaxIdentities == 3
SampleCourses == 2
MaxAppIds == 2
MaxSessions == 1
MaxStudentSessions == 1
MaxAdminSessions == 2
NewCourses == 1
MaxClock == 2

\* ------------------------------------------------------------- constants
NoUser == 0
NoCourse == 0
BootstrapAdmin == 1

Identities == 1..MaxIdentities
Callers == Identities \cup {NoUser}
Roles == {"student", "admin"}
Statuses == {"pending", "approved", "rejected"}
StatusInputs == Statuses \cup {"other"}
CourseIds == 1..SampleCourses
AllCourseIds == 1..(SampleCourses + NewCourses)
AppIds == 1..MaxAppIds
Names == {"a", "b"}
Times == 0..MaxClock
Sessions == 1..MaxSessions
StudentSessions == 1..MaxStudentSessions
AdminSessions == 1..MaxAdminSessions

VARIABLES
    users,                 \* auth.users: the identities that exist
    profiles,              \* public.profiles: rows [id, user_id, first_name, updated_at]
    user_roles,            \* public.user_roles: rows [id, user_id, role]
    courses,               \* public.courses: rows [id, availability, updated_at]
    course_applications,   \* rows [id, student_id, course_id, status, updated_at]
    nextAppId,             \* the next fresh course_applications.id
    nextCourseId,          \* the next fresh courses.id
    now,                   \* now(): the store's clock
    user,                  \* per browser session: useAuth().user, NoUser if signed out
    idxCourses,            \* per session: the catalog page's courses
    appliedCourses,        \* per session: the catalog page's appliedCourses
    stuUser,               \* per student page: useAuth().user, NoUser if not open
    stuApplications,       \* per student page: applications
    admUser,               \* per admin page: whose session it is, NoUser if not open
    admCourses,            \* per admin page: courses
    admApplications,       \* per admin page: applications
    last                   \* the last request and the store's answer

storeVars == <<users, profiles, user_roles, courses, course_applications, nextAppId,
               nextCourseId, now>>
pageVars == <<user, idxCourses, appliedCourses>>
dashVars == <<stuUser, stuApplications, admUser, admCourses, admApplications>>
vars == <<users, profiles, user_roles, courses, course_applications, nextAppId,
          nextCourseId, now, user, idxCourses, appliedCourses,
          stuUser, stuApplications, admUser, admCourses, admApplications, last>>

\* A request and its answer. res: "ok" (error is null), "denied" (row-level
\* security error), "check" (check-constraint violation), "conflict" (unique
\* violation), "fk" (foreign-key violation), "failed" (the request did not reach the store or aborted).
\* n is the number of rows written or removed, rows the rows returned, and
\* before the rows the request addressed as they were when it arrived.
Answer(op, caller, id, owner, course, status, res, n, rows, before) ==
    [op |-> op, caller |-> caller, id |-> id, owner |-> owner, course |-> course,
     status |-> status, res |-> res, n |-> n, rows |-> rows, before |-> before]

\* What a page's handler is answered: the request and the store's answer, and
\* whether the request was lost on its way to the store (fault).
PageAnswer(op, caller, id, owner, course, status, res, n, before, fault) ==
    [op |-> op, caller |-> caller, id |-> id, owner |-> owner, course |-> course,
     status |-> status, res |-> res, n |-> n, rows |-> {}, before |-> before,
     fault |-> fault]

\* const { error } = await supabase...: the error of a request that did not
\* reach the store, or else the store's.
RequestResult(fault, res) == IF fault THEN "failed" ELSE res

\* Mutant: the handler goes on whatever the answer.
IgnoresError(res) == TRUE

\* if (error) throw error: the handler goes on only without an error.
Succeeded(res) == res = "ok"

\* ------------------------------------------------------------ role resolver
\* Mutant: the role is not compared.
has_any_role(_user_id, _role) ==
    \E r \in user_roles : r.user_id = _user_id

has_role(_user_id, _role) ==
    \E r \in user_roles : r.user_id = _user_id /\ r.role = _role

\* The id of a new row of a table whose ids no request refers to
\* (gen_random_uuid()): the row's key and the first rank no row of the table
\* has with that key, so that the id is the id of no other row.
FreshId(rows, key) ==
    <<key, CHOOSE n \in 1..(Cardinality(rows) + 1) :
              /\ \A r \in rows : r.id # <<key, n>>
              /\ \A k \in 1..(n - 1) : \E r \in rows : r.id = <<key, k>>>>

\* ------------------------------------------------- row-level-security policies
\* auth.uid() is NULL for an anonymous caller: NULL = user_id is never true,
\* and NoUser equals no identity.

\* public.profiles
UsersCanViewTheirOwnProfile(caller, row) == caller = row.user_id
\* Mutant: the update policy as USING (auth.uid() IS NOT NULL).
SignedInCanUpdateProfiles(caller, row) == caller # NoUser
UsersCanUpdateTheirOwnProfile(caller, row) == caller = row.user_id
UsersCanInsertTheirOwnProfile(caller, row) == caller = row.user_id
AdminsCanViewAllProfiles(caller) == has_role(caller, "admin")

\* public.user_roles
UsersCanViewTheirOwnRoles(caller, row) == caller = row.user_id
\* Mutant: the policy as USING (auth.uid() IS NOT NULL).
SignedInCanManageRoles(caller) == caller # NoUser
AdminsCanManageAllRoles(caller) == has_role(caller, "admin")

\* public.courses
\* Mutant: the select policy on courses as USING (true).
AnyoneCanViewAllCourses(row) == TRUE
AnyoneCanViewAvailableCourses(row) == row.availability = TRUE
\* Mutant: the policy as USING (auth.uid() IS NOT NULL).
SignedInCanManageCourses(caller) == caller # NoUser
AdminsCanManageCourses(caller) == has_role(caller, "admin")

\* public.course_applications
\* Mutant: the select policy as USING (auth.uid() IS NOT NULL).
SignedInCanViewApplications(caller, row) == caller # NoUser
StudentsCanViewTheirOwnApplications(caller, row) == caller = row.student_id
\* Mutant: the insert policy as WITH CHECK (true).
AnyoneCanCreateApplications(caller, row) == TRUE
StudentsCanCreateApplications(caller, row) == caller = row.student_id
StudentsCanUpdateTheirOwnApplications(caller, row) == caller = row.student_id
\* Mutant: no admin policy on course_applications.
NoAdminApplicationsPolicy(caller) == FALSE
AdminsCanManageAllApplications(caller) == has_role(caller, "admin")

\* The policies of one command, OR'd. A command without a policy reaches no
\* row.
ProfilesSelectUsing(caller, row) ==
    UsersCanViewTheirOwnProfile(caller, row) \/ AdminsCanViewAllProfiles(caller)
ProfilesUpdateUsing(caller, row) == UsersCanUpdateTheirOwnProfile(caller, row)
ProfilesUpdateCheck(caller, row) == UsersCanUpdateTheirOwnProfile(caller, row)
ProfilesInsertCheck(caller, row) == UsersCanInsertTheirOwnProfile(caller, row)
ProfilesDeleteUsing(caller, row) == FALSE

RolesSelectUsing(caller, row) ==
    UsersCanViewTheirOwnRoles(caller, row) \/ AdminsCanManageAllRoles(caller)
RolesInsertCheck(caller, row) == AdminsCanManageAllRoles(caller)
RolesDeleteUsing(caller, row) == AdminsCanManageAllRoles(caller)
RolesUpdateUsing(caller, row) == AdminsCanManageAllRoles(caller)
RolesUpdateCheck(caller, row) == AdminsCanManageAllRoles(caller)

CoursesSelectUsing(caller, row) ==
    AnyoneCanViewAvailableCourses(row) \/ AdminsCanManageCourses(caller)
CoursesUpdateUsing(caller, row) == AdminsCanManageCourses(caller)
CoursesUpdateCheck(caller, row) == AdminsCanManageCourses(caller)
CoursesInsertCheck(caller, row) == AdminsCanManageCourses(caller)
CoursesDeleteUsing(caller, row) == AdminsCanManageCourses(caller)

ApplicationsSelectUsing(caller, row) ==
    StudentsCanViewTheirOwnApplications(caller, row)
        \/ AdminsCanManageAllApplications(caller)
ApplicationsInsertCheck(caller, row) ==
    StudentsCanCreateApplications(caller, row)
        \/ AdminsCanManageAllApplications(caller)
ApplicationsUpdateUsing(caller, row) ==
    StudentsCanUpdateTheirOwnApplications(caller, row)
        \/ AdminsCanManageAllApplications(caller)
ApplicationsUpdateCheck(caller, row) ==
    StudentsCanUpdateTheirOwnApplications(caller, row)
        \/ AdminsCanManageAllApplications(caller)
ApplicationsDeleteUsing(caller, row) == AdminsCanManageAllApplications(caller)

\* ------------------------------------------------------------ store requests
\* What a caller's select returns, before the request's own filters.
SelectCourses(caller) == {r \in courses : CoursesSelectUsing(caller, r)}
SelectApplications(caller) ==
    {r \in course_applications : ApplicationsSelectUsing(caller, r)}

\* Mutant: row-level security not applied to the delete.
ApplicationsDeletableWithoutPolicy(caller, id) ==
    {r \in course_applications : r.id = id}

\* The rows an update or a delete filtered on id reaches.
ApplicationsUpdatable(caller, id) ==
    {r \in SelectApplications(caller) : r.id = id /\ ApplicationsUpdateUsing(caller, r)}
ApplicationsDeletable(caller, id) ==
    {r \in SelectApplications(caller) : r.id = id /\ ApplicationsDeleteUsing(caller, r)}
CoursesUpdatable(caller, id) ==
    {r \in SelectCourses(caller) : r.id = id /\ CoursesUpdateUsing(caller, r)}
CoursesDeletable(caller, id) ==
    {r \in SelectCourses(caller) : r.id = id /\ CoursesDeleteUsing(caller, r)}

\* The rows of one (student, course) pair.
ApplicationsOfPair(student, course) ==
    {r \in course_applications : r.student_id = student /\ r.course_id = course}

\* Mutant: course_applications without its REFERENCES clauses.
NoApplicationsForeignKeys(row) == TRUE

\* Mutant: no unique constraint on (student_id, course_id).
NoApplicationsUnique(row) == FALSE

\* UNIQUE(student_id, course_id)
ApplicationsUniqueViolated(row) ==
    ApplicationsOfPair(row.student_id, row.course_id) # {}
\* REFERENCES auth.users(id), REFERENCES public.courses(id)
ApplicationsForeignKeysHold(row) ==
    /\ row.student_id \in users
    /\ \E c \in courses : c.id = row.course_id

\* CHECK (status IN ('pending', 'approved', 'rejected'))
ApplicationsStatusCheck(row) == row.status \in Statuses

\* The answer to an insert of row by caller: the policy check comes before the
\* constraints, the check constraint before the unique index, the unique
\* index before the foreign keys.
InsertApplicationResult(caller, row) ==
    IF ~ApplicationsInsertCheck(caller, row) THEN "denied"
    ELSE IF ~ApplicationsStatusCheck(row) THEN "check"
    ELSE IF ApplicationsUniqueViolated(row) THEN "conflict"
    ELSE IF ~ApplicationsForeignKeysHold(row) THEN "fk"
    ELSE "ok"

\* UNIQUE(user_id, role), REFERENCES auth.users(id)
InsertRoleResult(caller, row) ==
    IF ~RolesInsertCheck(caller, row) THEN "denied"
    ELSE IF \E r \in user_roles : r.user_id = row.user_id /\ r.role = row.role
        THEN "conflict"
    ELSE IF row.user_id \notin users THEN "fk"
    ELSE "ok"

\* -------------------------------------------------------------- provisioning
\* handle_new_user: the rows the trigger inserts for the new auth.users row;
\* meta is raw_user_meta_data ->> 'first_name'.
NewProfile(i, meta) ==
    [id |-> FreshId(profiles, <<i>>), user_id |-> i, first_name |-> meta,
     updated_at |-> now]
NewStudentRole(i) ==
    [id |-> FreshId(user_roles, <<i>>), user_id |-> i, role |-> "student"]

\* Does the trigger's insert into profiles / user_roles succeed?
\* profiles.user_id is UNIQUE, user_roles is UNIQUE(user_id, role).
ProfileInsertable(i) == \A p \in profiles : p.user_id # i
StudentRoleInsertable(i) ==
    \A r \in user_roles : ~(r.user_id = i /\ r.role = "student")

\* Mutant: the trigger without its insert into user_roles.
ProvisionOutcomeWithoutRole(i, meta, failAt) ==
    IF failAt # "none" \/ ~ProfileInsertable(i) THEN
        [ok |-> FALSE, users |-> users, profiles |-> profiles, user_roles |-> user_roles]
    ELSE
        [ok |-> TRUE, users |-> users \cup {i},
         profiles |-> profiles \cup {NewProfile(i, meta)}, user_roles |-> user_roles]

\* Mutant: a failing role insert is swallowed, the identity and its profile stay.
ProvisionOutcomeNotAtomic(i, meta, failAt) ==
    IF failAt = "profile" \/ ~ProfileInsertable(i) THEN
        [ok |-> FALSE, users |-> users, profiles |-> profiles, user_roles |-> user_roles]
    ELSE IF failAt = "role" \/ ~StudentRoleInsertable(i) THEN
        [ok |-> FALSE, users |-> users \cup {i},
         profiles |-> profiles \cup {NewProfile(i, meta)}, user_roles |-> user_roles]
    ELSE
        [ok |-> TRUE, users |-> users \cup {i},
         profiles |-> profiles \cup {NewProfile(i, meta)},
         user_roles |-> user_roles \cup {NewStudentRole(i)}]

\* The store after the identity provider inserts identity i into auth.users.
\* on_auth_user_created runs handle_new_user in the statement's transaction:
\* an insert of the trigger that fails (a constraint, or the failure injected
\* at failAt) raises, and the whole statement, the auth.users row included, is
\* rolled back.
ProvisionOutcome(i, meta, failAt) ==
    IF failAt = "profile" \/ ~ProfileInsertable(i) THEN
        [ok |-> FALSE, users |-> users, profiles |-> profiles, user_roles |-> user_roles]
    ELSE IF failAt = "role" \/ ~StudentRoleInsertable(i) THEN
        [ok |-> FALSE, users |-> users, profiles |-> profiles, user_roles |-> user_roles]
    ELSE
        [ok |-> TRUE,
         users |-> users \cup {i},
         profiles |-> profiles \cup {NewProfile(i, meta)},
         user_roles |-> user_roles \cup {NewStudentRole(i)}]

FailPoints == {"none", "profile", "role"}

\* The identity provider's ids are fresh uuids: the identities are taken in order.
Provision(i, meta, failAt) ==
    /\ i \notin users
    /\ \A j \in Identities \ users : i <= j
    /\ LET out == ProvisionOutcome(i, meta, failAt) IN
        /\ users' = out.users
        /\ profiles' = out.profiles
        /\ user_roles' = out.user_roles
        /\ last' = Answer("provision", NoUser, 0, i, 0, failAt,
                          IF out.ok THEN "ok" ELSE "failed", 0, {}, {})
    /\ UNCHANGED <<courses, course_applications, nextAppId, nextCourseId, now>>
    /\ UNCHANGED <<pageVars, dashVars>>

\* The identity provider deletes identity i from auth.users: the rows of
\* profiles, user_roles and course_applications that reference it are
\* REFERENCES auth.users(id) ON DELETE CASCADE and go in the same statement.
\* (Identities are numbered, so that a number can be given again to a later
\* identity; no row of the removed one is left to be taken for the new one's.)
RemoveIdentity(i) ==
    /\ i \in users
    /\ users' = users \ {i}
    /\ profiles' = {p \in profiles : p.user_id # i}
    /\ user_roles' = {r \in user_roles : r.user_id # i}
    /\ course_applications' = {a \in course_applications : a.student_id # i}
    /\ last' = Answer("removeIdentity", NoUser, 0, i, 0, "", "ok",
                      Cardinality({a \in course_applications : a.student_id = i}), {},
                      {a \in course_applications : a.student_id = i})
    /\ UNCHANGED <<courses, nextAppId, nextCourseId, now>>
    /\ UNCHANGED <<pageVars, dashVars>>

\* ------------------------------------------------------------------- time
\* Mutant: the BEFORE UPDATE trigger leaves the row as the update wrote it.
keep_updated_at_column(new_row) == new_row

\* update_updated_at_column, the BEFORE UPDATE trigger FOR EACH ROW of
\* profiles, courses and course_applications: NEW.updated_at = now(), on the
\* row NEW the update is about to write.
update_updated_at_column(new_row) == [new_row EXCEPT !.updated_at = now]

\* now() moves on between two requests.
Tick ==
    /\ now < MaxClock
    /\ now' = now + 1
    /\ last' = Answer("tick", NoUser, 0, 0, 0, "", "ok", 0, {}, {})
    /\ UNCHANGED <<users, profiles, user_roles, courses, course_applications,
                   nextAppId, nextCourseId>>
    /\ UNCHANGED <<pageVars, dashVars>>

\* --------------------------------------------------- requests on profiles
\* update profiles set first_name = ... where user_id = ...
ReqUpdateProfile(caller, i, name) ==
    LET old == {r \in profiles :
                    /\ r.user_id = i
                    /\ ProfilesSelectUsing(caller, r) /\ ProfilesUpdateUsing(caller, r)}
        new == {update_updated_at_column([r EXCEPT !.first_name = name]) : r \in old}
        res == IF \A r \in new : ProfilesUpdateCheck(caller, r) THEN "ok" ELSE "denied"
    IN  /\ profiles' = IF res = "ok" THEN (profiles \ old) \cup new ELSE profiles
        /\ last' = Answer("updateProfile", caller, 0, i, 0, name, res,
                          IF res = "ok" THEN Cardinality(old) ELSE 0, {},
                          {r \in profiles : r.user_id = i})
        /\ UNCHANGED <<users, user_roles, courses, course_applications, nextAppId,
                       nextCourseId, now>>
        /\ UNCHANGED <<pageVars, dashVars>>

\* insert into profiles (user_id, first_name); user_id is UNIQUE and
\* REFERENCES auth.users(id).
ReqInsertProfile(caller, i, name) ==
    LET row == [id |-> FreshId(profiles, <<i>>), user_id |-> i, first_name |-> name,
                updated_at |-> now]
        res == IF ~ProfilesInsertCheck(caller, row) THEN "denied"
               ELSE IF \E r \in profiles : r.user_id = i THEN "conflict"
               ELSE IF i \notin users THEN "fk"
               ELSE "ok"
    IN  /\ profiles' = IF res = "ok" THEN profiles \cup {row} ELSE profiles
        /\ last' = Answer("insertProfile", caller, 0, i, 0, name, res,
                          IF res = "ok" THEN 1 ELSE 0, {},
                          {r \in profiles : r.user_id = i})
        /\ UNCHANGED <<users, user_roles, courses, course_applications, nextAppId,
                       nextCourseId, now>>
        /\ UNCHANGED <<pageVars, dashVars>>

\* delete from profiles where user_id = ...
ReqDeleteProfile(caller, i) ==
    LET del == {r \in profiles :
                    /\ r.user_id = i
                    /\ ProfilesSelectUsing(caller, r) /\ ProfilesDeleteUsing(caller, r)}
    IN  /\ profiles' = profiles \ del
        /\ last' = Answer("deleteProfile", caller, 0, i, 0, "", "ok", Cardinality(del), {},
                          {r \in profiles : r.user_id = i})
        /\ UNCHANGED <<users, user_roles, courses, course_applications, nextAppId,
                       nextCourseId, now>>
        /\ UNCHANGED <<pageVars, dashVars>>

\* ------------------------------------------------- requests on user_roles
ReqInsertRole(caller, i, role) ==
    LET row == [id |-> FreshId(user_roles, <<i>>), user_id |-> i, role |-> role]
        res == InsertRoleResult(caller, row)
    IN  /\ user_roles' = IF res = "ok" THEN user_roles \cup {row} ELSE user_roles
        /\ last' = Answer("insertRole", caller, 0, i, 0, role, res,
                          IF res = "ok" THEN 1 ELSE 0, {},
                          {r \in user_roles : r.user_id = i /\ r.role = role})
        /\ UNCHANGED <<users, profiles, courses, course_applications, nextAppId, nextCourseId, now>>
        /\ UNCHANGED <<pageVars, dashVars>>

ReqDeleteRole(caller, i, role) ==
    LET del == {r \in user_roles :
                    /\ r.user_id = i /\ r.role = role
                    /\ RolesSelectUsing(caller, r) /\ RolesDeleteUsing(caller, r)}
    IN  /\ user_roles' = user_roles \ del
        /\ last' = Answer("deleteRole", caller, 0, i, 0, role, "ok", Cardinality(del), {},
                          {r \in user_roles : r.user_id = i /\ r.role = role})
        /\ UNCHANGED <<users, profiles, courses, course_applications, nextAppId, nextCourseId, now>>
        /\ UNCHANGED <<pageVars, dashVars>>

\* update user_roles set role = newRole where user_id = i and role = role
ReqUpdateRole(caller, i, role, newRole) ==
    LET old == {r \in user_roles :
                    /\ r.user_id = i /\ r.role = role
                    /\ RolesSelectUsing(caller, r) /\ RolesUpdateUsing(caller, r)}
        new == {[r EXCEPT !.role = newRole] : r \in old}
        res == IF \E r \in new : ~RolesUpdateCheck(caller, r) THEN "denied"
               ELSE IF \E r \in new, q \in user_roles \ old :
                          q.user_id = r.user_id /\ q.role = r.role THEN "conflict"
               ELSE "ok"
    IN  /\ user_roles' = IF res = "ok" THEN (user_roles \ old) \cup new ELSE user_roles
        /\ last' = Answer("updateRole", caller, 0, i, 0, newRole, res,
                          IF res = "ok" THEN Cardinality(old) ELSE 0, {},
                          {r \in user_roles : r.user_id = i /\ r.role = role})
        /\ UNCHANGED <<users, profiles, courses, course_applications, nextAppId, nextCourseId, now>>
        /\ UNCHANGED <<pageVars, dashVars>>

\* ---------------------------------------------------- requests on courses
\* select * from courses, with the filter .eq('availability', true) when
\* onlyAvailable.
ReqSelectCourses(caller, onlyAvailable) ==
    LET got == {r \in SelectCourses(caller) : onlyAvailable => r.availability}
    IN  /\ last' = Answer("selectCourses", caller, 0, 0, 0,
                          IF onlyAvailable THEN "available" ELSE "all",
                          "ok", 0, got, {})
        /\ UNCHANGED storeVars
        /\ UNCHANGED <<pageVars, dashVars>>

\* update courses set availability = ... where id = ...
ReqUpdateCourse(caller, id, availability) ==
    LET old == CoursesUpdatable(caller, id)
        new == {update_updated_at_column([r EXCEPT !.availability = availability]) :
                    r \in old}
        res == IF \A r \in new : CoursesUpdateCheck(caller, r) THEN "ok" ELSE "denied"
    IN  /\ courses' = IF res = "ok" THEN (courses \ old) \cup new ELSE courses
        /\ last' = Answer("updateCourse", caller, id, 0, id,
                          IF availability THEN "available" ELSE "unavailable",
                          res, IF res = "ok" THEN Cardinality(old) ELSE 0, {},
                          {r \in courses : r.id = id})
        /\ UNCHANGED <<users, profiles, user_roles, course_applications, nextAppId, nextCourseId, now>>
        /\ UNCHANGED <<pageVars, dashVars>>

\* insert into courses (availability, ...)
ReqInsertCourse(caller, availability) ==
    LET row == [id |-> nextCourseId, availability |-> availability, updated_at |-> now]
        res == IF CoursesInsertCheck(caller, row) THEN "ok" ELSE "denied"
    IN  /\ res = "ok" => nextCourseId \in AllCourseIds
        /\ courses' = IF res = "ok" THEN courses \cup {row} ELSE courses
        /\ nextCourseId' = IF res = "ok" THEN nextCourseId + 1 ELSE nextCourseId
        /\ last' = Answer("insertCourse", caller, nextCourseId, 0, nextCourseId,
                          IF availability THEN "available" ELSE "unavailable",
                          res, IF res = "ok" THEN 1 ELSE 0, {}, {})
        /\ UNCHANGED <<users, profiles, user_roles, course_applications, nextAppId, now>>
        /\ UNCHANGED <<pageVars, dashVars>>

\* delete from courses where id = ...; course_applications.course_id is
\* REFERENCES public.courses(id) ON DELETE CASCADE.
ReqDeleteCourse(caller, id) ==
    LET del == CoursesDeletable(caller, id)
    IN  /\ courses' = courses \ del
        /\ course_applications' =
              {a \in course_applications : \A c \in del : a.course_id # c.id}
        /\ last' = Answer("deleteCourse", caller, id, 0, id, "", "ok",
                          Cardinality(del), {}, {r \in courses : r.id = id})
        /\ UNCHANGED <<users, profiles, user_roles, nextAppId, nextCourseId, now>>
        /\ UNCHANGED <<pageVars, dashVars>>

\* ----------------------------------------- requests on course_applications
ReqSelectApplications(caller) ==
    /\ last' = Answer("selectApplications", caller, 0, 0, 0, "", "ok", 0,
                      SelectApplications(caller), {})
    /\ UNCHANGED storeVars
    /\ UNCHANGED <<pageVars, dashVars>>

\* insert into course_applications (student_id, course_id, status)
ReqInsertApplication(caller, student, course, status) ==
    LET row == [id |-> nextAppId, student_id |-> student, course_id |-> course,
                status |-> status, updated_at |-> now]
        res == InsertApplicationResult(caller, row)
    IN  /\ res = "ok" => nextAppId <= MaxAppIds
        /\ course_applications' =
              IF res = "ok" THEN course_applications \cup {row} ELSE course_applications
        /\ nextAppId' = IF res = "ok" THEN nextAppId + 1 ELSE nextAppId
        /\ last' = Answer("insertApplication", caller, nextAppId, student, course,
                          status, res, IF res = "ok" THEN 1 ELSE 0, {},
                          ApplicationsOfPair(student, course))
        /\ UNCHANGED <<users, profiles, user_roles, courses, nextCourseId, now>>
        /\ UNCHANGED <<pageVars, dashVars>>

\* update course_applications set status = ... where id = ...
ReqUpdateApplication(caller, id, status) ==
    LET old == ApplicationsUpdatable(caller, id)
        new == {update_updated_at_column([r EXCEPT !.status = status]) : r \in old}
        res == IF \E r \in new : ~ApplicationsUpdateCheck(caller, r) THEN "denied"
               ELSE IF \E r \in new : ~ApplicationsStatusCheck(r) THEN "check"
               ELSE "ok"
    IN  /\ course_applications' =
              IF res = "ok" THEN (course_applications \ old) \cup new
              ELSE course_applications
        /\ last' = Answer("updateApplication", caller, id, 0, 0, status, res,
                          IF res = "ok" THEN Cardinality(old) ELSE 0, {},
                          {r \in course_applications : r.id = id})
        /\ UNCHANGED <<users, profiles, user_roles, courses, nextAppId, nextCourseId, now>>
        /\ UNCHANGED <<pageVars, dashVars>>

\* delete from course_applications where id = ...
ReqDeleteApplication(caller, id) ==
    LET del == ApplicationsDeletable(caller, id)
    IN  /\ course_applications' = course_applications \ del
        /\ last' = Answer("deleteApplication", caller, id, 0, 0, "", "ok",
                          Cardinality(del), {},
                          {r \in course_applications : r.id = id})
        /\ UNCHANGED <<users, profiles, user_roles, courses, nextAppId, nextCourseId, now>>
        /\ UNCHANGED <<pageVars, dashVars>>

\* ------------------------------------------------------------ catalog page
\* fetchCourses: select * from courses where availability = true, as caller u.
FetchedCourses(u) == {r \in SelectCourses(u) : r.availability = TRUE}

\* fetchUserApplications: the course_id of the caller's rows with
\* student_id = user.id, read from the applications table apps.
FetchedApplied(u, apps) ==
    {r.course_id : r \in {a \in apps : ApplicationsSelectUsing(u, a) /\ a.student_id = u}}

\* useEffect(..., [user]): fetchCourses(), and fetchUserApplications() if a
\* user is signed in; without a user appliedCourses is left as it is.
IndexEffect(s, u) ==
    /\ idxCourses' = [idxCourses EXCEPT ![s] = FetchedCourses(u)]
    /\ appliedCourses' =
          IF u # NoUser
          THEN [appliedCourses EXCEPT ![s] = FetchedApplied(u, course_applications)]
          ELSE appliedCourses

\* The catalog page is loaded (or reloaded): fresh component state, then the
\* effect.
LoadIndex(s) ==
    /\ idxCourses' = [idxCourses EXCEPT ![s] = FetchedCourses(user[s])]
    /\ appliedCourses' =
          [appliedCourses EXCEPT ![s] =
              IF user[s] # NoUser
              THEN FetchedApplied(user[s], course_applications) ELSE {}]
    /\ last' = Answer("loadIndex", user[s], 0, 0, 0, "", "ok", 0, {}, {})
    /\ UNCHANGED <<storeVars, user, dashVars>>

\* The identity provider signs identity i in; the page's user changes.
SignIn(s, i) ==
    /\ user[s] = NoUser
    /\ i \in users
    /\ user' = [user EXCEPT ![s] = i]
    /\ IndexEffect(s, i)
    /\ last' = Answer("signIn", i, 0, 0, 0, "", "ok", 0, {}, {})
    /\ UNCHANGED <<storeVars, dashVars>>

\* signOut
SignOut(s) ==
    /\ user[s] # NoUser
    /\ user' = [user EXCEPT ![s] = NoUser]
    /\ IndexEffect(s, NoUser)
    /\ last' = Answer("signOut", user[s], 0, 0, 0, "", "ok", 0, {}, {})
    /\ UNCHANGED <<storeVars, dashVars>>

\* The Apply button of course k is on the page and enabled: the card is one of
\* the page's courses, it is rendered for an available course, and it is
\* disabled when the course is among appliedCourses.
ApplyButtonEnabled(s, k) ==
    /\ \E c \in idxCourses[s] : c.id = k /\ c.availability
    /\ k \notin appliedCourses[s]

\* CourseCard.handleApply for course k: without a user no request is sent;
\* otherwise the insert of (student_id: user.id, course_id: k), status left
\* to its default, and on success onApplicationChange = fetchUserApplications.
HandleApply(s, k, fault) ==
    /\ ApplyButtonEnabled(s, k)
    /\ IF user[s] = NoUser
       THEN /\ last' = PageAnswer("handleApply", NoUser, 0, NoUser, k, "", "nosend", 0,
                                  ApplicationsOfPair(NoUser, k), FALSE)
            /\ UNCHANGED <<storeVars, pageVars, dashVars>>
       ELSE LET row == [id |-> nextAppId, student_id |-> user[s], course_id |-> k,
                        status |-> "pending", updated_at |-> now]
                res == RequestResult(fault, InsertApplicationResult(user[s], row))
                apps == IF res = "ok" THEN course_applications \cup {row}
                        ELSE course_applications
            IN  /\ res = "ok" => nextAppId <= MaxAppIds
                /\ course_applications' = apps
                /\ nextAppId' = IF res = "ok" THEN nextAppId + 1 ELSE nextAppId
                /\ appliedCourses' =
                      IF Succeeded(res)
                      THEN [appliedCourses EXCEPT ![s] = FetchedApplied(user[s], apps)]
                      ELSE appliedCourses
                /\ last' = PageAnswer("handleApply", user[s], nextAppId, user[s], k,
                                      "pending", res, IF res = "ok" THEN 1 ELSE 0,
                                      ApplicationsOfPair(user[s], k), fault)
                /\ UNCHANGED <<users, profiles, user_roles, courses, nextCourseId, now,
                               user, idxCourses, dashVars>>

\* ------------------------------------------------------------- student page
\* The course embedded in a fetched application: the row of courses the
\* caller can select, null (NoCourse) when row-level security hides it.
JoinedCourse(u, k) == IF \E c \in SelectCourses(u) : c.id = k THEN k ELSE NoCourse

\* StudentDashboard.fetchApplications: id, status and the embedded course of
\* the caller's rows with student_id = user.id, read from the table apps.
FetchedStudentApplications(u, apps) ==
    {[id |-> r.id, status |-> r.status, course |-> JoinedCourse(u, r.course_id)] :
        r \in {a \in apps : ApplicationsSelectUsing(u, a) /\ a.student_id = u}}

\* The student page is opened by the signed-in identity i: useEffect(...,
\* [user]) runs fetchApplications.
OpenStudent(t, i) ==
    /\ i \in users
    /\ stuUser' = [stuUser EXCEPT ![t] = i]
    /\ stuApplications' =
          [stuApplications EXCEPT ![t] = FetchedStudentApplications(i, course_applications)]
    /\ last' = PageAnswer("OpenStudent", i, 0, i, 0, "", "ok", 0, {}, FALSE)
    /\ UNCHANGED <<storeVars, pageVars, admUser, admCourses, admApplications>>

\* The cancel button is rendered for the applications of the page's list whose
\* status is pending.
CancelButtonShown(t, id) ==
    \E a \in stuApplications[t] : a.id = id /\ a.status = "pending"

\* cancelApplication: delete ... where id = applicationId, and on success
\* fetchApplications.
CancelApplication(t, id, fault) ==
    /\ stuUser[t] # NoUser
    /\ CancelButtonShown(t, id)
    /\ LET u == stuUser[t]
           del == IF fault THEN {} ELSE ApplicationsDeletable(u, id)
           res == RequestResult(fault, "ok")
           apps == course_applications \ del
       IN  /\ course_applications' = apps
           /\ stuApplications' =
                 IF Succeeded(res)
                 THEN [stuApplications EXCEPT ![t] = FetchedStudentApplications(u, apps)]
                 ELSE stuApplications
           /\ last' = PageAnswer("CancelApplication", u, id, u, 0, "", res,
                                 Cardinality(del),
                                 {r \in course_applications : r.id = id}, fault)
    /\ UNCHANGED <<users, profiles, user_roles, courses, nextAppId, nextCourseId, now>>
    /\ UNCHANGED <<pageVars, stuUser, admUser, admCourses, admApplications>>

\* updateProfile: update profiles set first_name = ... where user_id = user.id,
\* with the form's contents; no list is refetched.
UpdateProfile(t, name, fault) ==
    /\ stuUser[t] # NoUser
    /\ LET u == stuUser[t]
           old == IF fault THEN {}
                  ELSE {r \in profiles :
                          /\ r.user_id = u
                          /\ ProfilesSelectUsing(u, r) /\ ProfilesUpdateUsing(u, r)}
           new == {update_updated_at_column([r EXCEPT !.first_name = name]) : r \in old}
           res == RequestResult(fault,
                     IF \A r \in new : ProfilesUpdateCheck(u, r) THEN "ok" ELSE "denied")
       IN  /\ profiles' = IF res = "ok" THEN (profiles \ old) \cup new ELSE profiles
           /\ last' = PageAnswer("UpdateProfile", u, 0, u, 0, name, res,
                                 IF res = "ok" THEN Cardinality(old) ELSE 0,
                                 {r \in profiles : r.user_id = u}, fault)
    /\ UNCHANGED <<users, user_roles, courses, course_applications, nextAppId,
                   nextCourseId, now>>
    /\ UNCHANGED <<pageVars, dashVars>>

\* --------------------------------------------------------------- admin page
\* AdminDashboard.fetchCourses: select * from courses, as caller u, read from
\* the table crs.
FetchedAdminCourses(u, crs) == {r \in crs : CoursesSelectUsing(u, r)}

\* AdminDashboard.fetchApplications: id, status, student_id and the embedded
\* course of every row the caller can select, read from the table apps.
FetchedAdminApplications(u, apps) ==
    {[id |-> r.id, status |-> r.status, student_id |-> r.student_id,
      course |-> JoinedCourse(u, r.course_id)] :
        r \in {a \in apps : ApplicationsSelectUsing(u, a)}}

\* The admin page is opened in the session of identity i: useEffect(..., [])
\* runs fetchData.
OpenAdmin(a, i) ==
    /\ i \in users
    /\ admUser' = [admUser EXCEPT ![a] = i]
    /\ admCourses' = [admCourses EXCEPT ![a] = FetchedAdminCourses(i, courses)]
    /\ admApplications' =
          [admApplications EXCEPT ![a] = FetchedAdminApplications(i, course_applications)]
    /\ last' = PageAnswer("OpenAdmin", i, 0, i, 0, "", "ok", 0, {}, FALSE)
    /\ UNCHANGED <<storeVars, pageVars, stuUser, stuApplications>>

\* createCourse: insert into courses the form's newCourse, and on success
\* fetchCourses.
CreateCourse(a, availability, fault) ==
    /\ admUser[a] # NoUser
    /\ LET u == admUser[a]
           row == [id |-> nextCourseId, availability |-> availability, updated_at |-> now]
           res == RequestResult(fault,
                     IF CoursesInsertCheck(u, row) THEN "ok" ELSE "denied")
           crs == IF res = "ok" THEN courses \cup {row} ELSE courses
       IN  /\ res = "ok" => nextCourseId \in AllCourseIds
           /\ courses' = crs
           /\ nextCourseId' = IF res = "ok" THEN nextCourseId + 1 ELSE nextCourseId
           /\ admCourses' =
                 IF Succeeded(res)
                 THEN [admCourses EXCEPT ![a] = FetchedAdminCourses(u, crs)]
                 ELSE admCourses
           /\ last' = PageAnswer("CreateCourse", u, nextCourseId, 0, nextCourseId,
                                 IF availability THEN "available" ELSE "unavailable",
                                 res, IF res = "ok" THEN 1 ELSE 0, {}, fault)
    /\ UNCHANGED <<users, profiles, user_roles, course_applications, nextAppId, now>>
    /\ UNCHANGED <<pageVars, stuUser, stuApplications, admUser, admApplications>>

\* The edit and delete buttons are rendered for the courses of the page's list.
CourseListed(a, id) == \E c \in admCourses[a] : c.id = id

\* updateCourse: update courses set ... where id = course.id, with the edit
\* dialog's contents, and on success fetchCourses.
UpdateCourse(a, id, availability, fault) ==
    /\ admUser[a] # NoUser
    /\ CourseListed(a, id)
    /\ LET u == admUser[a]
           old == IF fault THEN {} ELSE CoursesUpdatable(u, id)
           new == {update_updated_at_column([r EXCEPT !.availability = availability]) :
                       r \in old}
           res == RequestResult(fault,
                     IF \A r \in new : CoursesUpdateCheck(u, r) THEN "ok" ELSE "denied")
           crs == IF res = "ok" THEN (courses \ old) \cup new ELSE courses
       IN  /\ courses' = crs
           /\ admCourses' =
                 IF Succeeded(res)
                 THEN [admCourses EXCEPT ![a] = FetchedAdminCourses(u, crs)]
                 ELSE admCourses
           /\ last' = PageAnswer("UpdateCourse", u, id, 0, id,
                                 IF availability THEN "available" ELSE "unavailable",
                                 res, IF res = "ok" THEN Cardinality(old) ELSE 0,
                                 {r \in courses : r.id = id}, fault)
    /\ UNCHANGED <<users, profiles, user_roles, course_applications, nextAppId,
                   nextCourseId, now>>
    /\ UNCHANGED <<pageVars, stuUser, stuApplications, admUser, admApplications>>

\* deleteCourse: delete from courses where id = courseId (the applications for
\* the course go with it), and on success fetchCourses.
DeleteCourse(a, id, fault) ==
    /\ admUser[a] # NoUser
    /\ CourseListed(a, id)
    /\ LET u == admUser[a]
           del == IF fault THEN {} ELSE CoursesDeletable(u, id)
           res == RequestResult(fault, "ok")
           crs == courses \ del
       IN  /\ courses' = crs
           /\ course_applications' =
                 {x \in course_applications : \A c \in del : x.course_id # c.id}
           /\ admCourses' =
                 IF Succeeded(res)
                 THEN [admCourses EXCEPT ![a] = FetchedAdminCourses(u, crs)]
                 ELSE admCourses
           /\ last' = PageAnswer("DeleteCourse", u, id, 0, id, "", res, Cardinality(del),
                                 {r \in courses : r.id = id}, fault)
    /\ UNCHANGED <<users, profiles, user_roles, nextAppId, nextCourseId, now>>
    /\ UNCHANGED <<pageVars, stuUser, stuApplications, admUser, admApplications>>

\* Mutant: a third button that sets an application back to pending.
DecisionButtonsWithReset == Statuses

\* The approve and reject buttons.
DecisionButtons == {"approved", "rejected"}

\* The buttons are rendered for the applications of the page's list whose
\* status is pending.
DecisionButtonsShown(a, id) ==
    \E x \in admApplications[a] : x.id = id /\ x.status = "pending"

\* updateApplicationStatus: update course_applications set status = ... where
\* id = applicationId, and on success fetchApplications.
UpdateApplicationStatus(a, id, status, fault) ==
    /\ admUser[a] # NoUser
    /\ DecisionButtonsShown(a, id)
    /\ status \in DecisionButtons
    /\ LET u == admUser[a]
           old == IF fault THEN {} ELSE ApplicationsUpdatable(u, id)
           new == {update_updated_at_column([r EXCEPT !.status = status]) : r \in old}
           res == RequestResult(fault,
                     IF \E r \in new : ~ApplicationsUpdateCheck(u, r) THEN "denied"
                     ELSE IF \E r \in new : ~ApplicationsStatusCheck(r) THEN "check"
                     ELSE "ok")
           apps == IF res = "ok" THEN (course_applications \ old) \cup new
                   ELSE course_applications
       IN  /\ course_applications' = apps
           /\ admApplications' =
                 IF Succeeded(res)
                 THEN [admApplications EXCEPT ![a] = FetchedAdminApplications(u, apps)]
                 ELSE admApplications
           /\ last' = PageAnswer("UpdateApplicationStatus", u, id, 0, 0, status, res,
                                 IF res = "ok" THEN Cardinality(old) ELSE 0,
                                 {r \in course_applications : r.id = id}, fault)
    /\ UNCHANGED <<users, profiles, user_roles, courses, nextAppId, nextCourseId, now>>
    /\ UNCHANGED <<pageVars, stuUser, stuApplications, admUser, admCourses>>

\* ------------------------------------------------------------ specification
\* The store after the migration: the sample courses, all available, and the
\* first administrator, whom only the database owner can appoint (the policy
\* on user_roles lets no one but an admin write it).
Init ==
    /\ users = {BootstrapAdmin}
    /\ profiles = {[id |-> <<<<BootstrapAdmin>>, 1>>, user_id |-> BootstrapAdmin,
                     first_name |-> "a", updated_at |-> 0]}
    /\ user_roles = {[id |-> <<<<BootstrapAdmin>>, 1>>, user_id |-> BootstrapAdmin,
                       role |-> "student"],
                      [id |-> <<<<BootstrapAdmin>>, 2>>, user_id |-> BootstrapAdmin,
                       role |-> "admin"]}
    /\ courses = {[id |-> c, availability |-> TRUE, updated_at |-> 0] : c \in CourseIds}
    /\ course_applications = {}
    /\ nextAppId = 1
    /\ nextCourseId = SampleCourses + 1
    /\ now = 0
    /\ user = [s \in Sessions |-> NoUser]
    /\ idxCourses = [s \in Sessions |-> {}]
    /\ appliedCourses = [s \in Sessions |-> {}]
    /\ stuUser = [t \in StudentSessions |-> NoUser]
    /\ stuApplications = [t \in StudentSessions |-> {}]
    /\ admUser = [a \in AdminSessions |-> NoUser]
    /\ admCourses = [a \in AdminSessions |-> {}]
    /\ admApplications = [a \in AdminSessions |-> {}]
    /\ last = Answer("init", NoUser, 0, 0, 0, "", "ok", 0, {}, {})

\* Who can send a request: a signed-in identity, or nobody (the anon key).
Senders == users \cup {NoUser}

NextProvision == \E i \in Identities : Provision(i, "a", "none")
NextProvisionOrFail == \E i \in Identities, f \in FailPoints : Provision(i, "a", f)

NextRoles ==
    \/ \E c \in Senders, i \in Identities, r \in Roles : ReqInsertRole(c, i, r)
    \/ \E c \in Senders, i \in Identities, r \in Roles : ReqDeleteRole(c, i, r)

NextRoleUpdates ==
    \E c \in Senders, i \in Identities, r, n \in Roles : ReqUpdateRole(c, i, r, n)

NextCourses ==
    \/ \E c \in Senders, f \in BOOLEAN : ReqSelectCourses(c, f)
    \/ \E c \in Senders, id \in AllCourseIds, a \in BOOLEAN : ReqUpdateCourse(c, id, a)
    \/ \E c \in Senders, a \in BOOLEAN : ReqInsertCourse(c, a)
    \/ \E c \in Senders, id \in AllCourseIds : ReqDeleteCourse(c, id)

NextApplications ==
    \/ \E c \in Senders : ReqSelectApplications(c)
    \/ \E c \in Senders, s \in Identities, k \in CourseIds, st \in StatusInputs :
          ReqInsertApplication(c, s, k, st)
    \/ \E c \in Senders, id \in AppIds, st \in StatusInputs :
          ReqUpdateApplication(c, id, st)
    \/ \E c \in Senders, id \in AppIds : ReqDeleteApplication(c, id)

\* The application requests of any caller, over the identities provisioned so far.
Next == NextProvision \/ NextApplications
Spec == Init /\ [][Next]_vars

\* The catalog page of each browser session, while admins change the courses'
\* availability and anonymous callers send inserts to the store directly.
NextCatalog ==
    \/ \E s \in Sessions : LoadIndex(s)
    \/ \E s \in Sessions, i \in Identities : SignIn(s, i)
    \/ \E s \in Sessions : SignOut(s)
    \/ \E s \in Sessions, k \in CourseIds, f \in BOOLEAN : HandleApply(s, k, f)

NextK ==
    \/ NextProvision
    \/ NextCatalog
    \/ \E c \in {u \in users : has_role(u, "admin")}, id \in CourseIds, a \in BOOLEAN :
          ReqUpdateCourse(c, id, a)
    \/ \E i \in Identities, k \in CourseIds : ReqInsertApplication(NoUser, i, k, "pending")
SpecCatalog == Init /\ [][NextK]_vars

\* Provisioning, with its inserts failing or not, and the requests on user_roles.
NextR == NextProvisionOrFail \/ NextRoles
SpecRoles == Init /\ [][NextR]_vars

\* The workspace actions on applications, every request reaching the store:
\* apply on the catalog page of an identity that signs in and stays, cancel on
\* the student page, approve and reject on the admin pages of the admins.
NextApply ==
    \/ \E s \in Sessions, i \in Identities : SignIn(s, i)
    \/ \E s \in Sessions, k \in CourseIds : HandleApply(s, k, FALSE)

NextCancel ==
    \/ \E t \in StudentSessions, i \in Identities : OpenStudent(t, i)
    \/ \E t \in StudentSessions, id \in AppIds : CancelApplication(t, id, FALSE)

NextDecisions ==
    \/ \E a \in AdminSessions, i \in {u \in users : has_role(u, "admin")} : OpenAdmin(a, i)
    \/ \E a \in AdminSessions, id \in AppIds, st \in Statuses :
          UpdateApplicationStatus(a, id, st, FALSE)

NextA == NextProvision \/ NextApply \/ NextCancel \/ NextDecisions
SpecWorkspace == Init /\ [][NextA]_vars

\* The first sample course.
FirstCourse == CHOOSE k \in CourseIds : \A j \in CourseIds : k <= j

\* No page has been opened yet.
NoPageOpen ==
    /\ \A s \in Sessions : user[s] = NoUser
    /\ \A t \in StudentSessions : stuUser[t] = NoUser
    /\ \A a \in AdminSessions : admUser[a] = NoUser

\* Every write action of the three pages, its request reaching the store or
\* not: one page is opened, in the session of the first administrator, and
\* used, while the same identity sends requests from elsewhere (an application
\* for the first course, the deletion of that course) and can give up the
\* admin role.
NextWrites ==
    \/ \E s \in Sessions, i \in Identities : NoPageOpen /\ SignIn(s, i)
    \/ \E s \in Sessions, f \in BOOLEAN : HandleApply(s, FirstCourse, f)
    \/ \E t \in StudentSessions, i \in Identities : NoPageOpen /\ OpenStudent(t, i)
    \/ \E t \in StudentSessions, id \in AppIds, f \in BOOLEAN : CancelApplication(t, id, f)
    \/ \E t \in StudentSessions, n \in Names, f \in BOOLEAN : UpdateProfile(t, n, f)
    \/ \E a \in AdminSessions, i \in Identities : NoPageOpen /\ OpenAdmin(a, i)
    \/ \E a \in AdminSessions, v \in BOOLEAN, f \in BOOLEAN : CreateCourse(a, v, f)
    \/ \E a \in AdminSessions, id \in AllCourseIds, v \in BOOLEAN, f \in BOOLEAN :
          UpdateCourse(a, id, v, f)
    \/ \E a \in AdminSessions, id \in AllCourseIds, f \in BOOLEAN : DeleteCourse(a, id, f)
    \/ \E a \in AdminSessions, id \in AppIds, st \in Statuses, f \in BOOLEAN :
          UpdateApplicationStatus(a, id, st, f)

NextG ==
    \/ NextWrites
    \/ \E c \in users : ReqInsertApplication(c, c, FirstCourse, "pending")
    \/ \E c \in users : ReqDeleteCourse(c, FirstCourse)
    \/ \E c \in users : ReqDeleteRole(c, c, "admin")
SpecPages == Init /\ [][NextG]_vars

\* The updates of the three tables with an updated_at, by any caller, while
\* time passes; the applications are those for the first course.
NextT ==
    \/ Tick
    \/ \E c \in Senders, i \in Identities, n \in Names : ReqUpdateProfile(c, i, n)
    \/ \E c \in Senders, id \in CourseIds, a \in BOOLEAN : ReqUpdateCourse(c, id, a)
    \/ \E c \in users : ReqInsertApplication(c, c, FirstCourse, "pending")
    \/ \E c \in Senders, id \in AppIds, st \in Statuses : ReqUpdateApplication(c, id, st)
SpecClock == Init /\ [][NextT]_vars

\* Every request on profiles, by any caller, while identities are provisioned
\* with either first name.
NextProfiles ==
    \/ \E c \in Senders, i \in Identities, n \in Names : ReqUpdateProfile(c, i, n)
    \/ \E c \in Senders, i \in Identities, n \in Names : ReqInsertProfile(c, i, n)
    \/ \E c \in Senders, i \in Identities : ReqDeleteProfile(c, i)

NextP ==
    \/ \E i \in Identities, n \in Names : Provision(i, n, "none")
    \/ NextProfiles
SpecProfiles == Init /\ [][NextP]_vars

\* Every request on user_roles, by any caller, while identities are provisioned.
NextW == NextProvision \/ NextRoles \/ NextRoleUpdates
SpecRoleWrites == Init /\ [][NextW]_vars

\* The course requests of any caller, while identities are provisioned and
\* the admin role is granted and revoked.
NextAdminRole ==
    \/ \E c \in Senders, i \in Identities : ReqInsertRole(c, i, "admin")
    \/ \E c \in Senders, i \in Identities : ReqDeleteRole(c, i, "admin")

NextC == NextProvision \/ NextAdminRole \/ NextCourses
SpecCourses == Init /\ [][NextC]_vars

\* The first admin page.
FirstAdminPage == CHOOSE a \in AdminSessions : \A b \in AdminSessions : a <= b

\* Identities come and go, an admin creates a course and deletes courses
\* (with the admin page's delete button, and the first course by request as
\* well), and an identity, one that has been removed included, sends
\* applications of its own for any course.
NextI ==
    \/ NextProvision
    \/ \E i \in Identities : RemoveIdentity(i)
    \/ \E c \in Identities, k \in AllCourseIds : ReqInsertApplication(c, c, k, "pending")
    \/ \E c \in users : ReqInsertCourse(c, TRUE)
    \/ \E c \in users : ReqDeleteCourse(c, FirstCourse)
    \/ \E i \in {u \in users : has_role(u, "admin")} : OpenAdmin(FirstAdminPage, i)
    \/ \E id \in AllCourseIds : DeleteCourse(FirstAdminPage, id, FALSE)
SpecIntegrity == Init /\ [][NextI]_vars

\* The student page of the identities provisioned so far, who apply by
\* request, while the admins change the courses' availability.
NextS ==
    \/ NextProvision
    \/ \E c \in users, k \in CourseIds : ReqInsertApplication(c, c, k, "pending")
    \/ \E c \in {u \in users : has_role(u, "admin")}, id \in CourseIds, v \in BOOLEAN :
          ReqUpdateCourse(c, id, v)
    \/ \E t \in StudentSessions, i \in Identities : OpenStudent(t, i)
    \/ \E t \in StudentSessions, id \in AppIds : CancelApplication(t, id, FALSE)
SpecStudent == Init /\ [][NextS]_vars

\* ===================================================================== claims

\* The caller holds the role: user_roles has the row.
HoldsRole(c, role) == \E r \in user_roles : r.user_id = c /\ r.role = role

RowsOfProfile(i) == {p \in profiles : p.user_id = i}
RowsOfRole(i) == {r \in user_roles : r.user_id = i}

\* C1: a read of courses by a caller without the admin role (anonymous
\* included) returns only rows whose availability is true; a caller with the
\* admin role gets every row of the relation from an unfiltered select.
C1_CoursesReadPolicy ==
    last.op = "selectCourses" =>
        /\ ~HoldsRole(last.caller, "admin") =>
              /\ \A r \in last.rows : r.availability = TRUE
              /\ last.rows \subseteq courses
        /\ (HoldsRole(last.caller, "admin") /\ last.status = "all") =>
              last.rows = courses

\* A caller without the admin role has read the courses, unfiltered, while a
\* course is unavailable, and was not given it.
C1_Witness ==
    /\ last.op = "selectCourses"
    /\ last.status = "all"
    /\ ~HoldsRole(last.caller, "admin")
    /\ \E c \in courses : ~c.availability /\ c \notin last.rows

\* C2: a read of course_applications returns to a caller without the admin
\* role only rows whose student is the caller, and every row to an admin.
C2_ApplicationsReadPolicy ==
    last.op = "selectApplications" =>
        IF HoldsRole(last.caller, "admin")
        THEN last.rows = course_applications
        ELSE /\ \A r \in last.rows : r.student_id = last.caller
             /\ last.rows \subseteq course_applications

\* A student has read their applications while another identity has one too.
C2_Witness ==
    /\ last.op = "selectApplications"
    /\ ~HoldsRole(last.caller, "admin")
    /\ last.rows # {}
    /\ \E r \in course_applications : r.student_id # last.caller

\* C3: at most one course_applications row exists for each (student, course);
\* an insert for a pair that already has a row fails and adds no row, with a
\* unique violation whenever the insert policy admits the caller (the student
\* applying for themselves, or an admin) and the status is one of the domain.
C3_UniquePair ==
    \A r1, r2 \in course_applications :
        (r1.student_id = r2.student_id /\ r1.course_id = r2.course_id) => r1 = r2

C3_SecondInsert ==
    (last.op = "insertApplication" /\ last.before # {}) =>
        /\ ApplicationsOfPair(last.owner, last.course) = last.before
        /\ last.res \in {"conflict", "denied", "check"}
        /\ last.n = 0
        /\ (/\ last.caller = last.owner \/ HoldsRole(last.caller, "admin")
            /\ last.status \in Statuses)
              => last.res = "conflict"

C3_OneApplicationPerPair == C3_UniquePair /\ C3_SecondInsert

\* A student's second application to the same course was answered with the
\* unique violation.
C3_Witness ==
    /\ last.op = "insertApplication"
    /\ last.res = "conflict"
    /\ last.caller = last.owner
    /\ ~HoldsRole(last.caller, "admin")

\* C4: immediately after the provisioning step for identity I completes,
\* exactly one profiles row and exactly one user_roles row, with role
\* student, exist for I.
C4_ProvisionedRows ==
    (last.op = "provision" /\ last.res = "ok") =>
        /\ last.owner \in users
        /\ Cardinality(RowsOfProfile(last.owner)) = 1
        /\ Cardinality(RowsOfRole(last.owner)) = 1
        /\ \A r \in RowsOfRole(last.owner) : r.role = "student"

\* Identity 2 has just been provisioned.
C4_Witness ==
    /\ last.op = "provision"
    /\ last.res = "ok"
    /\ last.owner = 2
    /\ last.owner \in users

\* C5 as stated: no reachable state has an identity with a profile but no
\* role, a role but no profile, or neither.
C5_EveryIdentityHasProfileAndRole ==
    \A i \in users : RowsOfProfile(i) # {} /\ RowsOfRole(i) # {}

\* The part of C5 that holds: provisioning is all-or-nothing. After a provisioning step
\* whose profile insert or role insert failed the identity does not exist and
\* has neither row; after one that succeeded the identity has a profile and a
\* role; and no row of profiles or user_roles belongs to an identity that
\* does not exist.
C5_AfterProvision ==
    last.op = "provision" =>
        IF last.res = "ok"
        THEN /\ last.status = "none"
             /\ last.owner \in users
             /\ RowsOfProfile(last.owner) # {}
             /\ RowsOfRole(last.owner) # {}
        ELSE /\ last.res = "failed"
             /\ last.owner \notin users
             /\ RowsOfProfile(last.owner) = {}
             /\ RowsOfRole(last.owner) = {}

C5_NoOrphanRows ==
    \A i \in Identities \ users : RowsOfProfile(i) = {} /\ RowsOfRole(i) = {}

C5_ProvisioningAllOrNothing == C5_NoOrphanRows /\ C5_AfterProvision

\* The role insert of a provisioning step failed: no identity, no rows.
C5_Witness ==
    /\ last.op = "provision"
    /\ last.res = "failed"
    /\ last.status = "role"
    /\ last.owner \notin users
    /\ RowsOfProfile(last.owner) = {}

\* C6: when a student (a caller without the admin role) issues the delete
\* request for their own application whose status is pending, the row is
\* removed from course_applications.
C6_StudentCancelRemovesRow ==
    (last.op = "deleteApplication" /\ ~HoldsRole(last.caller, "admin")) =>
        \A r \in last.before :
            (r.student_id = last.caller /\ r.status = "pending")
                => ~\E q \in course_applications : q.id = r.id

\* C7: a delete request by a caller without the admin role against a row
\* owned by a different student leaves that row present and unchanged.
C7_ForeignDeleteDenied ==
    (last.op = "deleteApplication" /\ ~HoldsRole(last.caller, "admin")) =>
        \A r \in last.before :
            r.student_id # last.caller => r \in course_applications

\* A signed-in student has asked to delete another identity's application.
C7_Witness ==
    /\ last.op = "deleteApplication"
    /\ last.caller \in users
    /\ ~HoldsRole(last.caller, "admin")
    /\ last.n = 0
    /\ \E r \in last.before : r.student_id # last.caller

\* C8: an update of an application's status to approved or rejected by a
\* caller holding the admin role succeeds and sets the stored status,
\* whoever owns the row.
C8_AdminDecides ==
    (/\ last.op = "updateApplication"
     /\ HoldsRole(last.caller, "admin")
     /\ last.status \in {"approved", "rejected"})
    => \A r \in last.before :
          /\ last.res = "ok"
          /\ last.n = 1
          /\ \E q \in course_applications :
                /\ q.id = r.id /\ q.student_id = r.student_id
                /\ q.course_id = r.course_id /\ q.status = last.status
          /\ \A q \in course_applications : q.id = r.id => q.status = last.status

\* An admin has approved a pending application of another identity.
C8_Witness ==
    /\ last.op = "updateApplication"
    /\ HoldsRole(last.caller, "admin")
    /\ last.status = "approved"
    /\ last.n = 1
    /\ \E r \in last.before : r.student_id # last.caller /\ r.status = "pending"
    /\ \E r \in course_applications : r.id = last.id /\ r.status = "approved"

\* C9: an update request by a caller without the admin role who is not the
\* row's owning student leaves the row's status and every other field
\* unchanged.
C9_ForeignUpdateDenied ==
    (last.op = "updateApplication" /\ ~HoldsRole(last.caller, "admin")) =>
        \A r \in last.before :
            r.student_id # last.caller => r \in course_applications

\* A signed-in student has asked to approve another identity's pending
\* application.
C9_Witness ==
    /\ last.op = "updateApplication"
    /\ last.caller \in users
    /\ ~HoldsRole(last.caller, "admin")
    /\ last.status = "approved"
    /\ last.n = 0
    /\ \E r \in last.before : r.student_id # last.caller /\ r.status = "pending"

\* C10: a caller with no identity never causes a course_applications row to
\* be created: the Apply action sends no insert when no user is signed in,
\* and an insert that reaches the store without an identity is rejected by
\* the policy; the relation has no row it did not have.
C10_AnonymousCannotApply ==
    (last.caller = NoUser /\ last.op \in {"handleApply", "insertApplication"}) =>
        /\ ApplicationsOfPair(last.owner, last.course) = last.before
        /\ \A r \in course_applications : r.id < nextAppId /\ r.id # last.id
        /\ last.n = 0
        /\ last.op = "handleApply" => last.res = "nosend"
        /\ last.op = "insertApplication" => last.res = "denied"

\* Apply was clicked on an available course's card with no user signed in.
C10_Witness ==
    /\ last.op = "handleApply"
    /\ last.caller = NoUser
    /\ last.res = "nosend"
    /\ \E s \in Sessions : user[s] = NoUser /\ ApplyButtonEnabled(s, last.course)
    /\ \E c \in courses : c.id = last.course /\ c.availability

\* C11: apart from the provisioning step, which adds the student role of the
\* new identity and nothing else, user_roles is changed only by a request whose
\* caller holds the admin role when the request arrives; so no request of a
\* caller without the admin role gives any identity the admin role.
C11_OnlyAdminsWriteRoles ==
    [][user_roles' # user_roles =>
          \/ /\ last'.op = "provision"
             /\ user_roles \subseteq user_roles'
             /\ \A r \in user_roles' \ user_roles :
                   r.user_id = last'.owner /\ r.role = "student"
          \/ /\ last'.op \in {"insertRole", "updateRole", "deleteRole"}
             /\ HoldsRole(last'.caller, "admin")]_vars

\* A signed-in identity without the admin role has asked for the admin role
\* for itself and was refused.
C11_Witness ==
    /\ last.op \in {"insertRole", "updateRole"}
    /\ last.status = "admin"
    /\ last.caller \in users
    /\ last.caller = last.owner
    /\ last.res = "denied" \/ last.n = 0
    /\ ~HoldsRole(last.caller, "admin")

\* C12: an insert, update or delete on courses by a caller who holds the admin
\* role when it arrives takes effect (the inserted row is there, the addressed
\* row has the written availability, the addressed row is gone); the same
\* request from any other caller, student or anonymous, leaves courses as it
\* was.
C12_OnlyAdminsWriteCourses ==
    [][last'.op \in {"insertCourse", "updateCourse", "deleteCourse"} =>
          IF HoldsRole(last'.caller, "admin")
          THEN /\ last'.res = "ok"
               /\ last'.op = "insertCourse" =>
                     /\ courses \subseteq courses'
                     /\ \E r \in courses' \ courses :
                           /\ r.id = last'.id
                           /\ r.availability = (last'.status = "available")
               /\ last'.op = "updateCourse" =>
                     /\ {r.id : r \in courses'} = {r.id : r \in courses}
                     /\ \A r \in courses' :
                           /\ r.id = last'.id => r.availability = (last'.status = "available")
                           /\ r.id # last'.id => r \in courses
               /\ last'.op = "deleteCourse" =>
                     courses' = {r \in courses : r.id # last'.id}
          ELSE courses' = courses /\ last'.n = 0]_vars

\* A signed-in student has asked to delete a course that exists.
C12_Witness ==
    /\ last.op = "deleteCourse"
    /\ last.caller \in users
    /\ ~HoldsRole(last.caller, "admin")
    /\ last.before # {}
    /\ last.before \subseteq courses

\* C13 as stated: an update of a profile sent by its owning identity or by a
\* caller holding the admin role writes the row.
C13_OwnerOrAdminModifiesProfile ==
    (/\ last.op = "updateProfile"
     /\ last.caller = last.owner \/ HoldsRole(last.caller, "admin"))
    => \A p \in RowsOfProfile(last.owner) : p.first_name = last.status

\* C13, amended: a profiles row is modified by its owning identity and by no
\* other caller, a caller holding the admin role included: apart from the
\* provisioning step, every step that changes profiles is an update sent by
\* the owner of the one row it changes, and the owner's update writes the row.
C13_OnlyOwnerModifiesProfile ==
    [][/\ profiles' # profiles =>
            \/ last'.op = "provision"
            \/ /\ last'.op = "updateProfile"
               /\ last'.caller = last'.owner
               /\ \A p \in profiles : p.user_id # last'.owner => p \in profiles'
               /\ \A p \in profiles' : p.user_id # last'.owner => p \in profiles
       /\ (last'.op = "updateProfile" /\ last'.caller = last'.owner) =>
            /\ last'.res = "ok"
            /\ \A p \in profiles' : p.user_id = last'.owner => p.first_name = last'.status
            /\ {p.user_id : p \in profiles'} = {p.user_id : p \in profiles}]_vars

\* An admin has asked to change the first name on another identity's profile,
\* and the row is as it was.
C13_Witness ==
    /\ last.op = "updateProfile"
    /\ HoldsRole(last.caller, "admin")
    /\ last.caller # last.owner
    /\ last.n = 0
    /\ last.before # {}
    /\ last.before \subseteq profiles
    /\ \A p \in last.before : p.first_name # last.status

\* C14: every course_applications row a student (a caller without the admin
\* role) creates has the status pending when it is created, by the Apply
\* action or by an insert sent otherwise: no row comes into existence with
\* the status approved or rejected.
C14_CreatedPending ==
    (/\ last.op \in {"insertApplication", "handleApply"}
     /\ last.res = "ok"
     /\ ~HoldsRole(last.caller, "admin")) =>
        \A r \in course_applications : r.id = last.id => r.status = "pending"

\* C15: in every state, after any requests on user_roles, every identity has
\* exactly one profiles row and at least one user_roles row.
C15_OneProfileAndSomeRole ==
    \A i \in users :
        /\ Cardinality(RowsOfProfile(i)) = 1
        /\ Cardinality(RowsOfRole(i)) >= 1

\* C20: every update that writes a profiles, courses or course_applications
\* row sets the row's updated_at to the time of the update, also when the
\* values written equal the stored ones; an update of a course leaves the
\* course with the values written and the table with the rows it had, so the
\* same update applied twice gives the same values, two refreshes of
\* updated_at and no additional row.
C20_UpdatedAtRefreshed ==
    [][/\ (last'.op = "updateProfile" /\ last'.n >= 1) =>
            /\ \A p \in profiles : p.user_id = last'.owner =>
                   [p EXCEPT !.first_name = last'.status, !.updated_at = now] \in profiles'
            /\ Cardinality(profiles') = Cardinality(profiles)
       /\ (last'.op = "updateCourse" /\ last'.n >= 1) =>
            /\ \A r \in courses : r.id = last'.id =>
                   [r EXCEPT !.availability = (last'.status = "available"),
                             !.updated_at = now] \in courses'
            /\ \A r \in courses' : r.id = last'.id => r.updated_at = now
            /\ {r.id : r \in courses'} = {r.id : r \in courses}
            /\ Cardinality(courses') = Cardinality(courses)
       /\ (last'.op = "updateApplication" /\ last'.n >= 1) =>
            /\ \A r \in course_applications : r.id = last'.id =>
                   [r EXCEPT !.status = last'.status, !.updated_at = now]
                       \in course_applications'
            /\ Cardinality(course_applications') = Cardinality(course_applications)]_vars

\* The same course update has been applied a second time, later: the row had
\* the values written and an older updated_at, and has the new time now.
C20_Witness ==
    /\ last.op = "updateCourse"
    /\ last.n = 1
    /\ \E r \in last.before :
          /\ r.availability = (last.status = "available")
          /\ 0 < r.updated_at
          /\ r.updated_at < now
          /\ [r EXCEPT !.updated_at = now] \in courses

\* C16: under the workspace actions (apply, cancel, approve, reject) of the
\* catalog, student and admin pages, an application whose status is approved
\* or rejected never has the status pending afterwards.
C16_NoReturnToPending ==
    [][\A r \in course_applications : r.status # "pending" =>
          \A q \in course_applications' : q.id = r.id => q.status # "pending"]_vars

\* An admin page has rejected, from a list fetched earlier, an application
\* that another admin page had approved in between.
C16_Witness ==
    /\ last.op = "UpdateApplicationStatus"
    /\ last.res = "ok"
    /\ last.status = "rejected"
    /\ \E r \in last.before : r.status = "approved"
    /\ \E q \in course_applications : q.id = last.id /\ q.status = "rejected"

\* C17: approved and rejected are terminal: a decision of an admin page
\* leaves an application whose stored status is approved or rejected with the
\* status it has, also when two admin pages decide the same application from
\* lists fetched while it was pending.
C17_DecidedIsTerminal ==
    last.op = "UpdateApplicationStatus" =>
        \A r \in last.before : r.status # "pending" =>
            \A q \in course_applications : q.id = r.id => q.status = r.status

\* C18: the cancel action of the student page removes an application only
\* if its stored status is pending when the delete is applied, also when an
\* admin decided it after the page fetched its list.
C18_CancelOnlyPending ==
    (last.op = "CancelApplication" /\ last.n >= 1) =>
        \A r \in last.before : r.status = "pending"

PageWrites ==
    {"handleApply", "CancelApplication", "UpdateProfile", "CreateCourse",
     "UpdateCourse", "DeleteCourse", "UpdateApplicationStatus"}

RefsExist(a, usrs, crs) == a.student_id \in usrs /\ \E c \in crs : c.id = a.course_id

\* C21: in every state each course_applications row references a course that
\* exists and an identity that exists, and a step that deletes a course or
\* removes an identity removes, in that step, exactly the application rows
\* that referenced it.
C21_ReferentialIntegrity ==
    /\ [](\A a \in course_applications : RefsExist(a, users, courses))
    /\ [][last'.op \in {"deleteCourse", "DeleteCourse", "removeIdentity"} =>
             course_applications' =
                 {a \in course_applications : RefsExist(a, users', courses')}]_vars

\* The admin page has deleted a course that had an application, and an
\* application for another course is still there.
C21_Witness ==
    /\ last.op = "DeleteCourse"
    /\ last.n = 1
    /\ \A c \in courses : c.id # last.id
    /\ course_applications # {}
    /\ nextAppId > MaxAppIds

\* C22 as stated: every application the student page has fetched for a
\* student without the admin role carries its course (the embedded course is
\* never null), whatever the admins did to the course since the application.
C22_JoinedCourseNeverMissing ==
    (last.op \in {"OpenStudent", "CancelApplication"} /\ last.res = "ok"
        /\ ~HoldsRole(last.caller, "admin")) =>
        \A t \in StudentSessions :
            stuUser[t] = last.caller =>
                \A a \in stuApplications[t] : a.course # NoCourse

\* C23 as stated: an application row created by a student's Apply button is for a
\* course whose availability is true when the insert is applied (the step
\* leaves courses as it is), also when an admin made the course unavailable
\* after the page fetched the catalog.
C23_AppliedCourseAvailable ==
    (last.op = "handleApply" /\ last.res = "ok" /\ ~HoldsRole(last.caller, "admin")) =>
        \E c \in courses : c.id = last.course /\ c.availability = TRUE

\* The cards the catalog page shows as Applied: isApplied =
\* appliedCourses.includes(course.id), for the courses of the page's list.
ShownApplied(s) == {c.id : c \in {x \in idxCourses[s] : x.id \in appliedCourses[s]}}

\* C24 as stated: on the catalog page, while no user is signed in no card is
\* shown as Applied, and while a user is signed in a card is shown as Applied
\* only for a course that user has an application for, across sign-in, apply,
\* sign-out and sign-in of another user on the same page.
C24_AppliedOnlyForSignedInUser ==
    \A s \in Sessions :
        IF user[s] = NoUser
        THEN ShownApplied(s) = {}
        ELSE \A k \in ShownApplied(s) : ApplicationsOfPair(user[s], k) # {}

====
